---- MODULE Spec2Model ----
(***************************************************************************)
(* Call lifecycle of the bittensor dendrites:                              *)
(*   - TextCausalLMDendrite.forward / async_forward                        *)
(*       (bittensor/_synapse/text_causal_lm/dendrite.py)                   *)
(*   - TextToImageForwardCall, TextToImageDendrite.forward / async_forward *)
(*       (bittensor/_dendrite/text_to_image/dendrite.py)                   *)
(* The coroutines run on one asyncio event loop: a coroutine runs without  *)
(* interruption up to its single await (asyncio.wait_for) and again from   *)
(* the await to its return, so each of the two segments is one action.     *)
(* bittensor.Dendrite.apply and bittensor.DendriteCall are not part of the *)
(* sources at hand; apply_begin / apply_resume follow the lifecycle of the *)
(* written specification (section 4.2).                                    *)
(***************************************************************************)
EXTENDS Integers, Sequences, FiniteSets, TLC

\* ---------------------------------------------------------------- bounds
MaxCalls   == 2     \* calls issued in one behaviour
MaxTimeout == 2     \* timeouts are drawn from 1..MaxTimeout
MaxLatency == 2     \* transport latencies are drawn from 1..MaxLatency
MaxLen     == 1     \* longest text / response payload
MaxTime    == 2     \* the clock stops here

CallIds == 1..MaxCalls

\* ---------------------------------------------------------------- values
Bytes(n)  == [i \in 1..n |-> 0]
Payloads  == {Bytes(n) : n \in 0..MaxLen}
Unset     == << >>            \* image: bytes = b'' ; hidden_states not bound
BadInput  == <<-1>>           \* a payload the serializer cannot encode
Inputs    == {Bytes(MaxLen), BadInput}
NoError   == "none"

Terminals == {"Completed", "Failed", "TimedOut"}
Canon     == <<"encode", "dispatch", "await", "decode", "apply">>

NoResult  == [kind |-> "none", value |-> Unset, error |-> NoError]

\* A call that has not been issued yet.
Idle ==
  [variant |-> "none", entry |-> "none", return_call |-> TRUE,
   timeout |-> 0, text |-> Unset,
   state |-> "Idle", image |-> Unset, hidden_states |-> Unset,
   error |-> NoError, steps |-> << >>, result |-> NoResult,
   startAt |-> 0, beh |-> "none", latency |-> 0, payload |-> Unset,
   invoked |-> 0, signed |-> 0, writes |-> 0,
   obj |-> 0, metadata |-> << >>, wire |-> << >>,
   request |-> << >>, encoded_with |-> "none", decoded_with |-> "none",
   late |-> FALSE, built |-> << >>]

\* calls, now, finished: the calls, the loop's clock, the order of return.
\* dendrite: the TextCausalLMDendrite the causal-LM calls go through.
\* cli: the config handed to RootRegisterCommand.check_config.
VARIABLES calls, now, finished, dendrite, cli
vars == <<calls, now, finished, dendrite, cli>>

Terminal(call) == call.state \in Terminals
Started(call)  == call.state # "Idle"
Awaiting(call) == call.state = "AwaitingResponse"
Output(call)   == IF call.variant = "t2i" THEN call.image ELSE call.hidden_states

\* -------------------------------------------- TextCausalLMDendrite.__init__
Serializers == {"MSGPACK", "PICKLE"}

TextCausalLMDendrite(endpoint, wallet, text_inputs_serializer_type, hidden_states_serializer_type) ==
  [endpoint |-> endpoint, wallet |-> wallet,
   text_inputs_serializer_type |-> text_inputs_serializer_type,
   hidden_states_serializer_type |-> hidden_states_serializer_type]

\* ------------------------------------------------------------ commands/root
NotSet == [is_set |-> FALSE, value |-> "default"]
CliIdle ==
  [no_prompt |-> TRUE, network |-> NotSet, name |-> NotSet, hotkey |-> NotSet,
   prompts |-> << >>, checked |-> FALSE]

Settings == <<"network", "name", "hotkey">>
Networks == {"finney", "local"}          \* bittensor.__networks__
Names    == {"default", "other"}         \* what the user may type

\* Variant: an unset setting is asked for even under no_prompt.
ask_condition_no_prompt_ignored(config, s) == ~config[s].is_set

\* not config.is_set( s ) and not config.no_prompt
ask_condition(config, s) == ~config[s].is_set /\ ~config.no_prompt

\* One of the three if-blocks: Prompt.ask and the assignment under it.
ask(config, s, answer) ==
  IF ask_condition(config, s)
  THEN [config EXCEPT ![s].value = answer, !.prompts = Append(@, s)]
  ELSE config

check_config_of(config, network, wallet_name, hotkey) ==
  [ask(ask(ask(config, "network", network), "name", wallet_name),
       "hotkey", hotkey) EXCEPT !.checked = TRUE]

\* ------------------------------------------------ TextToImageForwardCall
\* Variant: the output field starts out as a copy of the input.
TextToImageForwardCall_preset(text, timeout) ==
  [Idle EXCEPT !.variant = "t2i", !.text = text,
               !.timeout = timeout, !.image = text, !.state = "Created"]

TextToImageForwardCall(text, timeout) ==
  [Idle EXCEPT !.variant = "t2i", !.text = text,
               !.timeout = timeout, !.image = Unset, !.state = "Created"]

\* Variant: the request also carries what the descriptor holds as output.
get_request_proto_with_image(call) == [text |-> call.text \o call.image]

get_request_proto(call) == [text |-> call.text]

\* Variant: the response is counted but its image is not stored.
apply_response_proto_not_stored(call, response_proto) ==
  [call EXCEPT !.writes = @ + 1]

apply_response_proto(call, response_proto) ==
  [call EXCEPT !.image = response_proto.image, !.writes = @ + 1]

\* Variant: the input shape is taken from the output field.
get_inputs_shape_of_image(call) == <<Len(call.image)>>

get_inputs_shape(call)  == <<Len(call.text)>>
get_outputs_shape(call) == <<Len(call.image)>>

\* ------------------------------------------------------------- transport
\* What the stub does with one invocation: answer with a decodable
\* payload, answer with bytes the serializer rejects, fail, or stay silent.
Transports ==
  {[beh |-> "silent", latency |-> 0, payload |-> Unset]}
    \cup [beh : {"fail", "malformed"}, latency : 1..MaxLatency, payload : {Unset}]
    \cup [beh : {"ok"}, latency : 1..MaxLatency, payload : Payloads]

\* self.receptor.sign(): one new signature for the call at hand.
sign(call) == <<"signature", call.signed + 1>>

\* Variant: the version pair is put in front of the signature pair.
metadata_version_first(signature) ==
  << <<"rpc-auth-header", "Bittensor">>,
     <<"bittensor-version", "version_as_int">>,
     <<"bittensor-signature", signature>> >>

\* ('rpc-auth-header', ...), ('bittensor-signature', sign()), ('bittensor-version', ...)
metadata(signature) ==
  << <<"rpc-auth-header", "Bittensor">>,
     <<"bittensor-signature", signature>>,
     <<"bittensor-version", "version_as_int">> >>

\* The stub is invoked once, with one fresh signature, and the await begins.
invoke_stub(call, t, tr) ==
  [call EXCEPT !.state = "AwaitingResponse",
               !.steps = @ \o <<"dispatch", "await">>,
               !.signed = @ + 1, !.invoked = @ + 1,
               !.metadata = metadata(sign(call)),
               !.wire = @ \o <<"sign", "invoke">>,
               !.startAt = t, !.beh = tr.beh,
               !.latency = tr.latency, !.payload = tr.payload]

\* ------------------------------------------------------------ serializer
serialize(call) ==
  IF call.text # BadInput THEN [ok |-> TRUE, data |-> <<call.encoded_with, call.text>>]
                ELSE [ok |-> FALSE, data |-> Unset]

\* Variant: hands back whatever bytes arrived without checking them.
deserialize_unchecked(call) == [ok |-> TRUE, value |-> call.payload]

deserialize(call) ==
  IF call.beh = "ok" THEN [ok |-> TRUE, value |-> call.payload]
                     ELSE [ok |-> FALSE, value |-> Unset]

\* ------------------------------------------------------ asyncio.wait_for
ResponseAt(call) == call.startAt + call.latency
DeadlineAt(call) == call.startAt + call.timeout

\* Variant: the timer is armed with no delay.
wait_for_expired_at_once(call, t) == t >= call.startAt

\* Variant: the future is awaited without a timeout.
wait_for_expired_never(call, t) == FALSE

wait_for_expired(call, t)  == t >= DeadlineAt(call)
wait_for_answered(call, t) == call.beh # "silent" /\ t >= ResponseAt(call)

\* The events the loop has ready: <<call, kind, time it became ready>>.
Ready(cs, t) ==
  {<<c, "timeout", DeadlineAt(cs[c])>> :
      c \in {d \in CallIds : Awaiting(cs[d]) /\ wait_for_expired(cs[d], t)}}
  \cup
  {<<c, "response", ResponseAt(cs[c])>> :
      c \in {d \in CallIds : Awaiting(cs[d]) /\ wait_for_answered(cs[d], t)}}

\* Variant: calls are resumed one after the other, in the order issued.
CanResume_in_turn(cs, t, c, kind) ==
  /\ \A d \in CallIds : d < c => ~Awaiting(cs[d])
  /\ \E e \in Ready(cs, t) :
       /\ e[1] = c /\ e[2] = kind
       /\ \A f \in Ready(cs, t) : f[1] = c => f[3] >= e[3]

\* The loop resumes a coroutine whose event is ready, oldest event first;
\* no coroutine waits for another one.
CanResume(cs, t, c, kind) ==
  \E e \in Ready(cs, t) :
     /\ e[1] = c /\ e[2] = kind
     /\ \A f \in Ready(cs, t) : f[3] >= e[3]

\* -------------------------------------------------- TextCausalLMDendrite
raised(err) == [kind |-> "raised", value |-> Unset, error |-> err]

\* Variant: the stub is called before the inputs are serialized.
clm_begin_dispatch_first(call, t, tr) ==
  LET c1 == invoke_stub([call EXCEPT !.state = "Dispatched"], t, tr)
  IN  IF ~serialize(c1).ok
      THEN [c1 EXCEPT !.state = "Failed", !.error = "SerializationError",
                      !.steps = Append(@, "encode"),
                      !.result = raised("SerializationError")]
      ELSE [c1 EXCEPT !.steps = Append(@, "encode")]

\* Variant: the coroutine gives up the loop between the stub call and the
\* await of its future.
clm_begin_extra_await(call, t, tr) ==
  LET c1 == [call EXCEPT !.state = "Serializing", !.steps = Append(@, "encode")]
  IN  IF ~serialize(c1).ok
      THEN [c1 EXCEPT !.state = "Failed", !.error = "SerializationError",
                      !.result = raised("SerializationError")]
      ELSE [invoke_stub([c1 EXCEPT !.state = "Dispatched"], t, tr)
              EXCEPT !.state = "Dispatched", !.steps = SubSeq(@, 1, 2)]

\* wait_for cancels the future when the timeout fires: a response that
\* arrives afterwards finds nobody waiting and is dropped.
\* Variant: the late response is still stored as the call's output.
abandon_stored(call) ==
  IF call.variant = "t2i"
  THEN [call EXCEPT !.late = TRUE, !.image = call.payload]
  ELSE [call EXCEPT !.late = TRUE, !.hidden_states = call.payload]

abandon(call) == [call EXCEPT !.late = TRUE]

\* Variant: the two serializer types change places in the request.
ForwardTextCausalLMRequest_swapped(serialized_text, d) ==
  [serialized_text_inputs |-> serialized_text,
   text_inputs_serializer_type |-> d.hidden_states_serializer_type,
   hidden_states_serializer_type |-> d.text_inputs_serializer_type]

\* request = bittensor.ForwardTextCausalLMRequest( ... ), lines 100-104
ForwardTextCausalLMRequest(serialized_text, d) ==
  [serialized_text_inputs |-> serialized_text,
   text_inputs_serializer_type |-> d.text_inputs_serializer_type,
   hidden_states_serializer_type |-> d.hidden_states_serializer_type]

\* async_forward, lines 95-116: serialize, build the request, call the stub.
clm_begin(call, t, tr) ==
  LET c1 == [call EXCEPT !.state = "Serializing", !.steps = Append(@, "encode"),
                         !.encoded_with = dendrite.text_inputs_serializer_type]
  IN  IF ~serialize(c1).ok
      THEN [c1 EXCEPT !.state = "Failed", !.error = "SerializationError",
                      !.result = raised("SerializationError")]
      ELSE invoke_stub([c1 EXCEPT !.state = "Dispatched",
                          !.request = <<ForwardTextCausalLMRequest(
                                           serialize(c1).data, dendrite)>>], t, tr)

\* Variant: a failed stub call is sent again instead of raising.
clm_resume_retry(call, kind) ==
  IF kind = "timeout"
  THEN [call EXCEPT !.state = "TimedOut", !.error = "TimeoutError",
                    !.result = raised("TimeoutError")]
  ELSE IF call.beh = "fail"
  THEN [call EXCEPT !.signed = @ + 1, !.invoked = @ + 1]
  ELSE LET c1 == [call EXCEPT !.steps = Append(@, "decode")]
           d  == deserialize(c1)
       IN  IF ~d.ok
           THEN [c1 EXCEPT !.state = "Failed", !.error = "MalformedResponseError",
                           !.result = raised("MalformedResponseError")]
           ELSE [c1 EXCEPT !.state = "Completed", !.hidden_states = d.value,
                           !.writes = @ + 1, !.steps = Append(@, "apply"),
                           !.result = [kind |-> "payload", value |-> d.value,
                                       error |-> NoError]]

\* async_forward, lines 116-123: the await returns or raises, then
\* deserialize and return the hidden states.
clm_resume(call, kind) ==
  IF kind = "timeout"
  THEN [call EXCEPT !.state = "TimedOut", !.error = "TimeoutError",
                    !.result = raised("TimeoutError")]
  ELSE IF call.beh = "fail"
  THEN [call EXCEPT !.state = "Failed", !.error = "TransportError",
                    !.result = raised("TransportError")]
  ELSE LET c1 == [call EXCEPT !.steps = Append(@, "decode"),
                              !.decoded_with = dendrite.hidden_states_serializer_type]
           d  == deserialize(c1)
       IN  IF ~d.ok
           THEN [c1 EXCEPT !.state = "Failed", !.error = "MalformedResponseError",
                           !.result = raised("MalformedResponseError")]
           ELSE [c1 EXCEPT !.state = "Completed", !.hidden_states = d.value,
                           !.writes = @ + 1, !.steps = Append(@, "apply"),
                           !.result = [kind |-> "payload", value |-> d.value,
                                       error |-> NoError]]

\* ------------------------------------------------------- Dendrite.apply
apply_begin(call, t, tr) ==
  LET c1 == [call EXCEPT !.state = "Serializing", !.steps = Append(@, "encode")]
  IN  IF ~serialize(c1).ok
      THEN [c1 EXCEPT !.state = "Failed", !.error = "SerializationError"]
      ELSE invoke_stub([c1 EXCEPT !.state = "Dispatched"], t, tr)

apply_resume(call, kind) ==
  IF kind = "timeout"
  THEN [call EXCEPT !.state = "TimedOut", !.error = "TimeoutError"]
  ELSE IF call.beh = "fail"
  THEN [call EXCEPT !.state = "Failed", !.error = "TransportError"]
  ELSE LET c1 == [call EXCEPT !.steps = Append(@, "decode")]
           d  == deserialize(c1)
       IN  IF ~d.ok
           THEN [c1 EXCEPT !.state = "Failed", !.error = "MalformedResponseError"]
           ELSE [apply_response_proto(c1, [image |-> d.value])
                   EXCEPT !.state = "Completed", !.steps = Append(@, "apply")]

\* --------------------------------------------------- TextToImageDendrite
descriptor(call) == [kind |-> "descriptor", value |-> call.image, error |-> call.error]
payload_only(call) == [kind |-> "payload", value |-> call.image, error |-> NoError]

\* Variant: the blocking entry point ignores return_call.
forward_return_always_call(response_call) == descriptor(response_call)

\* forward, lines 65-66
forward_return(response_call) ==
  IF response_call.return_call THEN descriptor(response_call)
                               ELSE payload_only(response_call)

\* async_forward, lines 80-81
async_forward_return(forward_call) ==
  IF forward_call.return_call THEN descriptor(forward_call)
                              ELSE payload_only(forward_call)

t2i_return(call) ==
  IF ~Terminal(call) THEN call
  ELSE [call EXCEPT !.result = IF call.entry = "forward"
                               THEN forward_return(call)
                               ELSE async_forward_return(call)]

\* Variant: the dendrite keeps one descriptor and hands it to every call.
fresh_kept(cs) == 1

\* forward_call = TextToImageForwardCall( ... ): a new object per invocation.
fresh(cs) == Cardinality({c \in CallIds : cs[c].obj # 0}) + 1

\* ----------------------------------------------------------- the caller
\* loop.run_until_complete keeps the calling thread inside forward until
\* the call is terminal; nothing else can be issued from it meanwhile.
Blocked(cs) == \E c \in CallIds : cs[c].entry = "forward" /\ Started(cs[c])
                                   /\ ~Terminal(cs[c])

CanIssue(c) ==
  /\ calls[c].state = "Idle"
  /\ \A d \in CallIds : d < c => Started(calls[d])
  /\ ~Blocked(calls)

\* What a caller may pass now: the clock is bounded, so a call is only
\* issued while its deadline still lies within the clock's range.
Timeouts == {t \in 1..MaxTimeout : now + t <= MaxTime}

\* The stub is not reached when the input cannot be encoded.
TransportsFor(text) ==
  IF text \in Payloads THEN Transports
  ELSE {[beh |-> "none", latency |-> 0, payload |-> Unset]}

Finish(c, call) ==
  finished' = IF Terminal(call) THEN Append(finished, c) ELSE finished

\* ---------------------------------------------------------------- actions
Init ==
  /\ calls = [c \in CallIds |-> Idle]
  /\ now = 0
  /\ finished = << >>
  /\ dendrite = TextCausalLMDendrite("endpoint", "wallet", "MSGPACK", "MSGPACK")
  /\ cli = CliIdle

t2i_forward(c) ==
  /\ CanIssue(c)
  /\ \E text \in Inputs, timeout \in Timeouts, return_call \in BOOLEAN :
     \E tr \in TransportsFor(text) :
       LET forward_call == [TextToImageForwardCall(text, timeout)
                              EXCEPT !.entry = "forward", !.return_call = return_call,
                                     !.obj = fresh(calls)]
           response_call == t2i_return(apply_begin(forward_call, now, tr))
       IN  /\ calls' = [calls EXCEPT ![c] = response_call]
           /\ Finish(c, response_call)
  /\ UNCHANGED <<now, dendrite, cli>>

t2i_async_forward(c) ==
  /\ CanIssue(c)
  /\ \E text \in Inputs, timeout \in Timeouts, return_call \in BOOLEAN :
     \E tr \in TransportsFor(text) :
       LET forward_call == [TextToImageForwardCall(text, timeout)
                              EXCEPT !.entry = "async_forward", !.return_call = return_call,
                                     !.obj = fresh(calls)]
           response_call == t2i_return(apply_begin(forward_call, now, tr))
       IN  /\ calls' = [calls EXCEPT ![c] = response_call]
           /\ Finish(c, response_call)
  /\ UNCHANGED <<now, dendrite, cli>>

\* The coroutine frame of one async_forward call of TextCausalLMDendrite.
clm_frame(entry, text_inputs, timeout) ==
  [Idle EXCEPT !.variant = "clm", !.entry = entry, !.return_call = FALSE,
               !.text = text_inputs, !.timeout = timeout, !.state = "Created"]

clm_async_forward(c) ==
  /\ CanIssue(c)
  /\ \E text_inputs \in Inputs, timeout \in Timeouts :
     \E tr \in TransportsFor(text_inputs) :
       LET call == clm_begin(clm_frame("async_forward", text_inputs, timeout), now, tr)
       IN  /\ calls' = [calls EXCEPT ![c] = call]
           /\ Finish(c, call)
  /\ UNCHANGED <<now, dendrite, cli>>

\* forward: loop.run_until_complete( self.async_forward( ... ) )
clm_forward(c) ==
  /\ CanIssue(c)
  /\ \E text_inputs \in Inputs, timeout \in Timeouts :
     \E tr \in TransportsFor(text_inputs) :
       LET call == clm_begin(clm_frame("forward", text_inputs, timeout), now, tr)
       IN  /\ calls' = [calls EXCEPT ![c] = call]
           /\ Finish(c, call)
  /\ UNCHANGED <<now, dendrite, cli>>

\* Time passes while some call is waiting for its transport.
Tick ==
  /\ now < MaxTime
  /\ \E c \in CallIds : Awaiting(calls[c])
  /\ now' = now + 1
  /\ UNCHANGED <<calls, finished, dendrite, cli>>

Resume(c, kind) ==
  /\ CanResume(calls, now, c, kind)
  /\ LET call == IF calls[c].variant = "clm"
                 THEN clm_resume(calls[c], kind)
                 ELSE t2i_return(apply_resume(calls[c], kind))
     IN  /\ calls' = [calls EXCEPT ![c] = call]
         /\ Finish(c, call)
  /\ UNCHANGED <<now, dendrite, cli>>

\* The transport answered (a response or an error) before wait_for gave up.
Respond(c) == Resume(c, "response")

\* asyncio.wait_for gave up.
Timeout(c) == Resume(c, "timeout")

Next ==
  \/ \E c \in CallIds : t2i_forward(c)
  \/ \E c \in CallIds : t2i_async_forward(c)
  \/ \E c \in CallIds : clm_forward(c)
  \/ \E c \in CallIds : clm_async_forward(c)
  \/ Tick
  \/ \E c \in CallIds : Respond(c)
  \/ \E c \in CallIds : Timeout(c)

Spec == Init /\ [][Next]_vars

\* The same calls through a dendrite constructed with any serializer pair.
ClientInit ==
  /\ calls = [c \in CallIds |-> Idle]
  /\ now = 0
  /\ finished = << >>
  /\ dendrite \in {TextCausalLMDendrite("endpoint", "wallet", a, b) :
                      a \in Serializers, b \in Serializers}
  /\ cli = CliIdle

ClientSpec == ClientInit /\ [][Next]_vars

\* The loop keeps running ready callbacks and time keeps passing.
FairSpec ==
  /\ Spec
  /\ WF_vars(Tick)
  /\ \A c \in CallIds : WF_vars(Respond(c)) /\ WF_vars(Timeout(c))

\* ------------------------------------------------------------ one call
\* One call at a time, with every input the entry points take: the empty
\* text, tensors of a given shape, and a caller that looks at the
\* descriptor (get_request_proto) while the call runs.
MaxBuilds == 2      \* times the caller asks a descriptor for its request

\* A tensor is its shape and its flat buffer.
Product(shape) == IF Len(shape) = 2 THEN shape[1] * shape[2]
                  ELSE shape[1] * shape[2] * shape[3]
Tensor(shape)  == <<shape, [i \in 1..Product(shape) |-> 0]>>
TensorShape(x) == x[1]

TextInputs   == {Tensor(<<1, n>>) : n \in {0, 4}}
HiddenStates == {Tensor(<<1, n, 8>>) : n \in {0, 4}}

TensorTransports ==
  {[beh |-> "silent", latency |-> 0, payload |-> Unset]}
    \cup [beh : {"fail", "malformed"}, latency : 1..MaxLatency, payload : {Unset}]
    \cup [beh : {"ok"}, latency : 1..MaxLatency, payload : HiddenStates]

NoneIssued == \A d \in CallIds : calls[d].state = "Idle"

solo_text_to_image(c) ==
  /\ CanIssue(c) /\ NoneIssued
  /\ \E entry \in {"forward", "async_forward"}, text \in Payloads \cup {BadInput},
        timeout \in Timeouts, return_call \in BOOLEAN :
     \E tr \in TransportsFor(text) :
       LET forward_call == [TextToImageForwardCall(text, timeout)
                              EXCEPT !.entry = entry, !.return_call = return_call,
                                     !.obj = fresh(calls)]
           response_call == t2i_return(apply_begin(forward_call, now, tr))
       IN  /\ calls' = [calls EXCEPT ![c] = response_call]
           /\ Finish(c, response_call)
  /\ UNCHANGED <<now, dendrite, cli>>

solo_causal_lm(c) ==
  /\ CanIssue(c) /\ NoneIssued
  /\ \E entry \in {"forward", "async_forward"}, text_inputs \in TextInputs,
        timeout \in Timeouts, tr \in TensorTransports :
       LET call == clm_begin(clm_frame(entry, text_inputs, timeout), now, tr)
       IN  /\ calls' = [calls EXCEPT ![c] = call]
           /\ Finish(c, call)
  /\ UNCHANGED <<now, dendrite, cli>>

\* A response still on its way to a call that has timed out.
InFlight(call) ==
  call.state = "TimedOut" /\ call.beh \in {"ok", "malformed", "fail"} /\ ~call.late

\* Time passes while a call waits or a response is still on its way.
Wait ==
  /\ now < MaxTime
  /\ \E c \in CallIds : Awaiting(calls[c]) \/ InFlight(calls[c])
  /\ now' = now + 1
  /\ UNCHANGED <<calls, finished, dendrite, cli>>

\* The transport answers a call that has already timed out.
LateResponse(c) ==
  /\ InFlight(calls[c])
  /\ now >= ResponseAt(calls[c])
  /\ calls' = [calls EXCEPT ![c] = abandon(calls[c])]
  /\ UNCHANGED <<now, finished, dendrite, cli>>

\* The caller asks the descriptor for its request, in whatever state the
\* call is; get_request_proto assigns nothing.
build_request(c) ==
  /\ calls[c].variant = "t2i"
  /\ Len(calls[c].built) < MaxBuilds
  /\ calls' = [calls EXCEPT ![c].built = Append(@, get_request_proto(calls[c]))]
  /\ UNCHANGED <<now, finished, dendrite, cli>>

SoloNext ==
  \/ \E c \in CallIds : solo_text_to_image(c)
  \/ \E c \in CallIds : solo_causal_lm(c)
  \/ Wait
  \/ \E c \in CallIds : Respond(c)
  \/ \E c \in CallIds : Timeout(c)
  \/ \E c \in CallIds : LateResponse(c)
  \/ \E c \in CallIds : build_request(c)

SoloSpec == Init /\ [][SoloNext]_vars

\* ------------------------------------------------------- check_config
\* Any config the command line can produce: each setting given or not.
CliInit ==
  /\ calls = [c \in CallIds |-> Idle]
  /\ now = 0
  /\ finished = << >>
  /\ dendrite = TextCausalLMDendrite("endpoint", "wallet", "MSGPACK", "MSGPACK")
  /\ cli \in [no_prompt : BOOLEAN,
              network : {NotSet} \cup [is_set : {TRUE}, value : Networks],
              name : {NotSet} \cup [is_set : {TRUE}, value : Names],
              hotkey : {NotSet} \cup [is_set : {TRUE}, value : Names],
              prompts : {<< >>}, checked : {FALSE}]

check_config ==
  /\ ~cli.checked
  /\ \E network \in Networks, wallet_name \in Names, hotkey \in Names :
       cli' = check_config_of(cli, network, wallet_name, hotkey)
  /\ UNCHANGED <<calls, now, finished, dendrite>>

CliNext == check_config

CliSpec == CliInit /\ [][CliNext]_vars

TypeOK ==
  /\ now \in 0..MaxTime
  /\ \A c \in CallIds : calls[c].state \in
        {"Idle", "AwaitingResponse"} \cup Terminals
\* ======================================================== properties
FailedOrTimedOut(call) == call.state \in {"Failed", "TimedOut"}
Dispatched(call) == call.invoked > 0
IsPrefix(s, t) == Len(s) <= Len(t) /\ \A i \in 1..Len(s) : s[i] = t[i]
Position(c) == CHOOSE i \in 1..Len(finished) : finished[i] = c
Min(a, b) == IF a <= b THEN a ELSE b
\* The earliest time at which anything can resume the call.
EarliestEvent(call) ==
  IF call.beh = "silent" THEN DeadlineAt(call)
  ELSE Min(ResponseAt(call), DeadlineAt(call))
\* Both calls were given the same inputs and the same transport behaviour.
SameInputs(a, b) ==
  /\ a.variant = b.variant /\ a.text = b.text /\ a.timeout = b.timeout
  /\ a.return_call = b.return_call /\ a.beh = b.beh
  /\ a.latency = b.latency /\ a.payload = b.payload

\* C1: a call whose transport never responds ends in TimedOut; a call
\* enters TimedOut only when at least its timeout has elapsed since the
\* await began, and its output is then unset.
C1_TimedOutAtOrAfterTimeout ==
  /\ \A c \in CallIds :
       (Awaiting(calls[c]) /\ calls[c].beh = "silent")
          ~> (calls[c].state = "TimedOut")
  /\ [](\A c \in CallIds :
          (Terminal(calls[c]) /\ calls[c].beh = "silent")
             => (calls[c].state = "TimedOut" /\ Output(calls[c]) = Unset))
  /\ [][\A c \in CallIds :
          (calls[c].state # "TimedOut" /\ calls'[c].state = "TimedOut")
             => /\ now' - calls'[c].startAt >= calls'[c].timeout
                /\ Output(calls'[c]) = Unset]_vars

C1_Witness ==
  \E c \in CallIds :
     /\ calls[c].state = "TimedOut" /\ calls[c].beh = "silent"
     /\ calls[c].timeout = MaxTimeout /\ Output(calls[c]) = Unset

\* C2: every call that is started eventually reaches a terminal state
\* (Completed, Failed or TimedOut) whatever the transport does, and a call
\* in a terminal state never changes again.
C2_TerminatesAndStays ==
  /\ \A c \in CallIds : Started(calls[c]) ~> Terminal(calls[c])
  /\ [][\A c \in CallIds : Terminal(calls[c]) => calls'[c] = calls[c]]_vars

C2_Witness ==
  \E a, b \in CallIds :
     /\ calls[a].state = "TimedOut" /\ calls[a].beh = "silent"
     /\ calls[b].state = "Failed" /\ calls[b].beh = "malformed"

\* C3: within one call the steps occur in the order encode, dispatch,
\* await, decode, apply: the steps taken are always a prefix of that
\* sequence, a waiting call has taken exactly the first three and a
\* completed call (or one whose output was written) all five.
C3_StepsInOrder ==
  \A c \in CallIds :
     /\ IsPrefix(calls[c].steps, Canon)
     /\ Awaiting(calls[c]) => calls[c].steps = SubSeq(Canon, 1, 3)
     /\ calls[c].state = "Completed" => calls[c].steps = Canon
     /\ calls[c].writes > 0 => calls[c].steps = Canon
     /\ (FailedOrTimedOut(calls[c]) /\ Dispatched(calls[c]))
           => Len(calls[c].steps) \in {3, 4}

C3_Witness ==
  \E c \in CallIds :
     /\ calls[c].variant = "clm" /\ calls[c].state = "Completed"
     /\ calls[c].steps = Canon

\* C4: when a call ends in Failed or TimedOut its output is unset and the
\* error is attached to the descriptor handed back, not thrown; with
\* return_call the caller holds the descriptor carrying that error.
C4_ErrorAttachedNotThrown ==
  \A c \in CallIds :
     FailedOrTimedOut(calls[c]) =>
        /\ Output(calls[c]) = Unset
        /\ calls[c].error # NoError
        /\ calls[c].result.kind # "raised"
        /\ calls[c].return_call =>
              /\ calls[c].result.kind = "descriptor"
              /\ calls[c].result.error = calls[c].error

\* C5: a caller of the payload-only shape (return_call = False, and the
\* causal-LM entry points) gets the error of a Failed or TimedOut call
\* surfaced; it never gets a plain payload for such a call.
C5_PayloadShapeSurfacesError ==
  \A c \in CallIds :
     (FailedOrTimedOut(calls[c]) /\ ~calls[c].return_call) =>
        /\ calls[c].result.kind # "payload"
        /\ calls[c].result.error = calls[c].error

\* C6: a response the output serializer cannot decode never completes a
\* call and never sets its output; when it arrives before the timeout the
\* call ends in Failed with MalformedResponseError.
C6_MalformedNeverCompletes ==
  \A c \in CallIds :
     calls[c].beh = "malformed" =>
        /\ calls[c].state # "Completed"
        /\ Output(calls[c]) = Unset /\ calls[c].writes = 0
        /\ "decode" \in {calls[c].steps[i] : i \in 1..Len(calls[c].steps)}
              => (calls[c].state = "Failed"
                    /\ calls[c].error = "MalformedResponseError")
        /\ (Terminal(calls[c]) /\ calls[c].latency < calls[c].timeout)
              => (calls[c].state = "Failed"
                    /\ calls[c].error = "MalformedResponseError")

C6_Witness ==
  \E c \in CallIds :
     /\ calls[c].variant = "clm" /\ calls[c].beh = "malformed"
     /\ calls[c].state = "Failed" /\ calls[c].error = "MalformedResponseError"
     /\ calls[c].steps = SubSeq(Canon, 1, 4)

\* C7: forward and async_forward, given the same inputs, timeout,
\* return_call and transport behaviour (response and deadline not due at
\* the same instant), take the same steps and end in the same state with
\* the same result.
C7_ForwardMatchesAsyncForward ==
  \A a, b \in CallIds :
     ( /\ Terminal(calls[a]) /\ Terminal(calls[b])
       /\ calls[a].entry = "forward" /\ calls[b].entry = "async_forward"
       /\ SameInputs(calls[a], calls[b])
       /\ calls[a].latency # calls[a].timeout )
     => /\ calls[a].state = calls[b].state
        /\ calls[a].steps = calls[b].steps
        /\ calls[a].result = calls[b].result
        /\ calls[a].error = calls[b].error
        /\ Output(calls[a]) = Output(calls[b])

C7_Witness ==
  \E a, b \in CallIds :
     /\ calls[a].entry = "forward" /\ calls[b].entry = "async_forward"
     /\ calls[a].variant = "t2i" /\ SameInputs(calls[a], calls[b])
     /\ ~calls[a].return_call
     /\ calls[a].state = "Completed" /\ calls[b].state = "Completed"
     /\ calls[a].result.kind = "payload"

C9_NoRetry ==
  \A c \in CallIds :
     /\ calls[c].invoked <= 1 /\ calls[c].signed <= 1
     /\ calls[c].signed = calls[c].invoked
     /\ Len(calls[c].steps) >= 2 => calls[c].invoked = 1

C9_Witness ==
  \E c \in CallIds :
     /\ calls[c].variant = "clm" /\ calls[c].state = "Failed"
     /\ calls[c].error = "TransportError" /\ calls[c].invoked = 1

\* C10: the output of a call is unset unless the call is Completed; it is
\* written at most once, exactly once on the way to Completed and never on
\* the way to Failed or TimedOut.
C10_OutputOnlyWhenCompleted ==
  \A c \in CallIds :
     /\ Output(calls[c]) # Unset => calls[c].state = "Completed"
     /\ calls[c].writes <= 1
     /\ calls[c].state = "Completed" <=> calls[c].writes = 1
     /\ FailedOrTimedOut(calls[c]) => Output(calls[c]) = Unset

C10_Witness ==
  \E c \in CallIds :
     /\ calls[c].variant = "t2i" /\ calls[c].state = "Completed"
     /\ calls[c].image # Unset /\ calls[c].writes = 1
Count(seq, x) == Cardinality({i \in 1..Len(seq) : seq[i] = x})

\* C13: every stub invocation carries exactly three metadata pairs, in the
\* order auth header, signature, version; the signature is the one made
\* for this call, made before the stub is invoked; a call that was not
\* dispatched carries no metadata.
C13_MetadataOrder ==
  \A c \in CallIds :
     /\ Dispatched(calls[c]) =>
          /\ Len(calls[c].metadata) = 3
          /\ calls[c].metadata[1] = <<"rpc-auth-header", "Bittensor">>
          /\ calls[c].metadata[2] = <<"bittensor-signature", <<"signature", 1>> >>
          /\ calls[c].metadata[3][1] = "bittensor-version"
          /\ calls[c].wire = <<"sign", "invoke">>
          /\ calls[c].signed = 1
     /\ ~Dispatched(calls[c]) =>
          (calls[c].metadata = << >> /\ calls[c].wire = << >>)

C13_Witness ==
  \E c \in CallIds :
     /\ calls[c].variant = "clm" /\ Awaiting(calls[c])
     /\ Len(calls[c].metadata) = 3 /\ calls[c].wire = <<"sign", "invoke">>

\* C15: a call is only ever seen not yet issued, waiting for its transport
\* or terminal, so other calls can take steps only while it waits; a call
\* becomes TimedOut only from the wait, only when its timeout has expired,
\* with no decode or apply step taken, and nothing else cancels a call.
C15_OneSuspensionPoint ==
  /\ [](\A c \in CallIds :
          /\ calls[c].state \in {"Idle", "AwaitingResponse"} \cup Terminals
          /\ Awaiting(calls[c]) => calls[c].steps = SubSeq(Canon, 1, 3)
          /\ calls[c].state = "TimedOut" =>
               (calls[c].error = "TimeoutError"
                  /\ calls[c].steps = SubSeq(Canon, 1, 3))
          /\ calls[c].error = "TimeoutError" => calls[c].state = "TimedOut")
  /\ [][\A c \in CallIds :
          /\ (calls[c].state # "TimedOut" /\ calls'[c].state = "TimedOut")
                => (Awaiting(calls[c]) /\ wait_for_expired(calls[c], now))
          /\ (calls'[c] # calls[c]) =>
                \A d \in CallIds \ {c} :
                   /\ calls'[d] = calls[d]
                   /\ calls[d].state \in {"Idle", "AwaitingResponse"} \cup Terminals]_vars

C15_Witness ==
  \E a, b \in CallIds :
     /\ a # b /\ Awaiting(calls[a]) /\ calls[b].state = "TimedOut"
     /\ calls[a].startAt <= calls[b].startAt

\* C16: every text-to-image call has a descriptor of its own, new at the
\* call with its output unset, handed to apply once: no two calls share a
\* descriptor, also when both are in flight on the same dendrite.
C16_FreshDescriptorPerCall ==
  \A a \in CallIds :
     calls[a].variant = "t2i" =>
        /\ calls[a].obj # 0
        /\ Count(calls[a].steps, "encode") = 1
        /\ calls[a].invoked <= 1
        /\ Awaiting(calls[a]) => (calls[a].image = Unset /\ calls[a].writes = 0)
        /\ \A b \in CallIds \ {a} :
              calls[b].variant = "t2i" => calls[b].obj # calls[a].obj

C16_Witness ==
  \E a, b \in CallIds :
     /\ a # b /\ calls[a].variant = "t2i" /\ calls[b].variant = "t2i"
     /\ Awaiting(calls[a]) /\ Awaiting(calls[b])
     /\ calls[a].obj # calls[b].obj
\* C18: a causal-LM request carries the serializer pair the dendrite was
\* constructed with; the input is encoded with the text-inputs type the
\* request announces and the response decoded with the hidden-states type
\* it announced; no call changes the dendrite's endpoint, wallet or pair.
C18_SerializerPairKept ==
  /\ [](\A c \in CallIds :
          calls[c].variant = "clm" =>
             /\ Dispatched(calls[c]) =>
                  /\ Len(calls[c].request) = 1
                  /\ calls[c].request[1].text_inputs_serializer_type
                        = dendrite.text_inputs_serializer_type
                  /\ calls[c].request[1].hidden_states_serializer_type
                        = dendrite.hidden_states_serializer_type
                  /\ calls[c].request[1].serialized_text_inputs
                        = <<calls[c].request[1].text_inputs_serializer_type,
                            calls[c].text>>
                  /\ calls[c].encoded_with
                        = calls[c].request[1].text_inputs_serializer_type
             /\ Count(calls[c].steps, "decode") = 1 =>
                  calls[c].decoded_with
                     = calls[c].request[1].hidden_states_serializer_type)
  /\ [][dendrite' = dendrite]_vars

C18_Witness ==
  /\ dendrite.text_inputs_serializer_type # dendrite.hidden_states_serializer_type
  /\ \E a, b \in CallIds :
       /\ calls[a].variant = "clm" /\ calls[a].state = "Completed"
       /\ calls[a].decoded_with = dendrite.hidden_states_serializer_type
       /\ calls[b].variant = "clm" /\ calls[b].state = "TimedOut"
\* The descriptor without what the caller's look at it records.
Fields(call) == [call EXCEPT !.built = << >>]

\* C11: a valid call whose transport answers well-formed before the timeout
\* ends in Completed, and the output then has the shape of the decoded
\* payload: len(image) for text-to-image; (1, 4, 8) for causal-LM inputs of
\* shape (1, 4) answered with hidden states of shape (1, 4, 8).
C11_OutputShapeIsPayloadShape ==
  \A c \in CallIds :
     /\ ( /\ Dispatched(calls[c]) /\ Terminal(calls[c])
          /\ calls[c].beh = "ok" /\ calls[c].latency < calls[c].timeout )
        => calls[c].state = "Completed"
     /\ (calls[c].state = "Completed" /\ calls[c].variant = "t2i")
        => get_outputs_shape(calls[c]) = <<Len(calls[c].payload)>>
     /\ (calls[c].state = "Completed" /\ calls[c].variant = "clm")
        => /\ TensorShape(calls[c].hidden_states) = TensorShape(calls[c].payload)
           /\ calls[c].result.value = calls[c].payload
     /\ ( /\ calls[c].state = "Completed" /\ calls[c].variant = "clm"
          /\ TensorShape(calls[c].text) = <<1, 4>>
          /\ TensorShape(calls[c].payload) = <<1, 4, 8>> )
        => /\ TensorShape(calls[c].hidden_states) = <<1, 4, 8>>
           /\ Len(calls[c].hidden_states[2]) = 32

C11_Witness ==
  \E c \in CallIds :
     /\ calls[c].variant = "clm" /\ calls[c].state = "Completed"
     /\ TensorShape(calls[c].text) = <<1, 4>>
     /\ TensorShape(calls[c].hidden_states) = <<1, 4, 8>>

C11_WitnessImage ==
  \E c \in CallIds :
     /\ calls[c].variant = "t2i" /\ calls[c].state = "Completed"
     /\ get_outputs_shape(calls[c]) = <<MaxLen>>

\* C12: the empty text is a valid input: such a call is dispatched and,
\* answered well-formed in time, completes; its input shape is 0; the
\* input shape is the text's length and the output shape is 0 in every
\* state before Completed.
C12_EmptyTextAndShapes ==
  \A c \in CallIds :
     calls[c].variant = "t2i" =>
        /\ get_inputs_shape(calls[c]) \in {<<n>> : n \in 0..MaxLen}
        /\ calls[c].text = Unset =>
             /\ get_inputs_shape(calls[c]) = <<0>>
             /\ Dispatched(calls[c])
             /\ calls[c].error # "SerializationError"
             /\ ( /\ Terminal(calls[c]) /\ calls[c].beh = "ok"
                  /\ calls[c].latency < calls[c].timeout )
                => calls[c].state = "Completed"
        /\ calls[c].text = Bytes(MaxLen) => get_inputs_shape(calls[c]) = <<MaxLen>>
        /\ calls[c].state # "Completed" => get_outputs_shape(calls[c]) = <<0>>
        /\ get_outputs_shape(calls[c]) \in {<<n>> : n \in 0..MaxLen}

C12_Witness ==
  \E c \in CallIds :
     /\ calls[c].variant = "t2i" /\ calls[c].text = Unset
     /\ calls[c].state = "Completed" /\ calls[c].image # Unset
     /\ get_inputs_shape(calls[c]) = <<0>>

\* C14: once a call is TimedOut it stays TimedOut with its output unset and
\* its steps and result as they were, also when the response arrives
\* afterwards; the step to TimedOut consumes no response.
C14_LateResponseDropped ==
  /\ [](\A c \in CallIds :
          calls[c].state = "TimedOut" =>
             /\ Output(calls[c]) = Unset /\ calls[c].writes = 0
             /\ Count(calls[c].steps, "decode") = 0
             /\ calls[c].result.value = Unset)
  /\ [][\A c \in CallIds :
          /\ calls[c].state = "TimedOut" =>
               /\ calls'[c].state = "TimedOut"
               /\ calls'[c].steps = calls[c].steps
               /\ calls'[c].result = calls[c].result
               /\ calls'[c].error = calls[c].error
          /\ (calls[c].state # "TimedOut" /\ calls'[c].state = "TimedOut")
               => ~calls'[c].late]_vars

C14_Witness ==
  \E c \in CallIds :
     /\ calls[c].state = "TimedOut" /\ calls[c].late
     /\ calls[c].beh = "ok" /\ calls[c].payload # Unset
     /\ Output(calls[c]) = Unset

\* C17: get_request_proto leaves the descriptor as it was, in every state
\* of the call, and every request it builds for a descriptor is the same:
\* the one holding the descriptor's text.
C17_GetRequestProtoPure ==
  /\ [](\A c \in CallIds :
          \A i \in 1..Len(calls[c].built) :
             calls[c].built[i] = [text |-> calls[c].text])
  /\ [][\A c \in CallIds :
          Len(calls'[c].built) > Len(calls[c].built)
             => Fields(calls'[c]) = Fields(calls[c])]_vars

C17_Witness ==
  \E c \in CallIds :
     /\ calls[c].state = "Completed" /\ calls[c].image # Unset
     /\ Len(calls[c].built) = MaxBuilds
\* The settings check_config has to ask for, in the order it asks.
ToAsk(config) ==
  SelectSeq(Settings, LAMBDA s : ~config[s].is_set /\ ~config.no_prompt)

\* C19: check_config asks exactly for the settings that are not set, and
\* only without no_prompt, in the order network, wallet name, hotkey; with
\* no_prompt it changes no setting and asks nothing; a setting that is set
\* keeps its value; only a setting asked for changes.
C19_PromptsOnlyForUnset ==
  [][cli' # cli =>
       /\ cli'.prompts = ToAsk(cli)
       /\ cli'.no_prompt = cli.no_prompt
       /\ cli.no_prompt =>
            /\ cli'.prompts = << >>
            /\ \A i \in 1..Len(Settings) : cli'[Settings[i]] = cli[Settings[i]]
       /\ \A i \in 1..Len(Settings) :
            /\ cli[Settings[i]].is_set => cli'[Settings[i]] = cli[Settings[i]]
            /\ cli'[Settings[i]] # cli[Settings[i]]
                 => Count(cli'.prompts, Settings[i]) = 1]_vars

C19_Witness ==
  /\ cli.checked /\ ~cli.no_prompt
  /\ cli.network.is_set /\ cli.network.value = "local"
  /\ cli.prompts = <<"name", "hotkey">>
  /\ cli.name.value = "other"

C19_WitnessNoPrompt ==
  /\ cli.checked /\ cli.no_prompt /\ ~cli.name.is_set
  /\ cli.prompts = << >> /\ cli.name = NotSet
====
